---- MODULE Spec2Model ----
(***************************************************************************)
(* Model of gtvision's configuration-driven creators:                      *)
(*   - create_sequential_datapipe and SequentialDataPipeCreator            *)
(*     (src/src/gtvision/creators/datapipe/sequential.py)                  *)
(*   - IterableDataFlowCreator                                             *)
(*     (src/src/gtvision/creators/dataflow/iterable.py)                    *)
(*                                                                         *)
(* Python objects are modelled with their identity where the code relies   *)
(* on it: a constructed stage is an object id, a configuration is the      *)
(* caller's object `cfg`, and a call frame's `config` variable is either  *)
(* bound to (a part of) the caller's object or to a private copy.          *)
(***************************************************************************)
EXTENDS Integers, Sequences, FiniteSets, TLC

\* ------------------------------------------------------------------ bounds
\* Largest number of nodes (descriptors and nested sequences) of a sequence
\* configuration.
MaxNodes == 3
\* Largest number of source inputs a caller passes.
MaxSrc == 2
\* Longest sequence configuration shared by two concurrent builds.
ConcLen == 2
\* Largest number of create calls made on one IterableDataFlowCreator.
MaxCreates == 3

\* ------------------------------------------------------------- vocabulary
\* objectory's OBJECT_TARGET, the reserved key naming the kind.
TARGET == "_target_"
Keys == {TARGET, "data"}
\* The value of a key a dict does not hold.
Absent == "absent"
\* Python's None, as an object reference.
None == 0
\* Errors the external construct utility (objectory's factory) may raise: an
\* unresolvable kind, or an exception of the target's initializer.
ConstructErrors == {"ResolutionError", "InitError"}
Threads == {1, 2}
\* The engine argument of create: None or an engine object.
Engines == {None, 1}

\* ---------------------------------------------------------- configurations
NoEntries == [k \in Keys |-> Absent]
\* A dict: each key's value, Absent for a key it does not hold.
Dict(d) == [tag |-> "dict", d |-> d, items |-> <<>>]
\* A sequence of configurations.
List(s) == [tag |-> "seq", d |-> NoEntries, items |-> s]

\* isinstance(config, dict)
IsDict(c) == c.tag = "dict"

\* An emptiness test made up front on every element of a sequence.
NotConfigDeep(c) ==
    IF c.tag = "dict" THEN \A k \in Keys : c.d[k] = Absent
    ELSE \/ Len(c.items) = 0
         \/ \E i \in 1..Len(c.items) :
               \/ c.items[i].tag = "dict" /\ \A k \in Keys : c.items[i].d[k] = Absent
               \/ c.items[i].tag = "seq" /\ Len(c.items[i].items) = 0
\* A weaker emptiness test, which overlooks the empty dict.
NotConfigSeqOnly(c) == (~IsDict(c)) /\ Len(c.items) = 0
\* Python's `not config`: the empty dict and the empty sequence are falsy.
NotConfig(c) ==
    IF IsDict(c) THEN \A k \in Keys : c.d[k] = Absent ELSE Len(c.items) = 0

\* The descriptors a caller writes: the docstring's SourceWrapper with data,
\* Multiplexer without arguments, the empty dict, and a dict without kind.
Descriptors ==
    { Dict([NoEntries EXCEPT ![TARGET] = "SourceWrapper", !["data"] = "d1234"]),
      Dict([NoEntries EXCEPT ![TARGET] = "Multiplexer"]),
      Dict(NoEntries),
      Dict([NoEntries EXCEPT !["data"] = "d1234"]) }

SeqsUpTo(X, n) == UNION { [1..k -> X] : k \in 0..n }

\* Nodes of one element of a sequence configuration.
Size(e) == IF IsDict(e) THEN 1 ELSE 1 + Len(e.items)

Elements(b) ==
    IF b <= 0 THEN {}
    ELSE Descriptors \cup { List(s) : s \in SeqsUpTo(Descriptors, b - 1) }

RECURSIVE ItemSeqs(_)
ItemSeqs(b) ==
    {<<>>} \cup
    UNION { { <<e>> \o r : r \in ItemSeqs(b - Size(e)) } : e \in Elements(b) }

\* dict | Sequence[dict], the sequences possibly nested.
Configs == Descriptors \cup { List(s) : s \in ItemSeqs(MaxNodes) }

\* The object at position p (a sequence of indexes) inside configuration c.
RECURSIVE At(_, _)
At(c, p) == IF p = <<>> THEN c ELSE At(c.items[Head(p)], Tail(p))

\* c with the object at position p replaced by v.
RECURSIVE SetAt(_, _, _)
SetAt(c, p, v) ==
    IF p = <<>> THEN v
    ELSE [c EXCEPT !.items[Head(p)] = SetAt(c.items[Head(p)], Tail(p), v)]

\* ----------------------------------------------------------- source inputs
\* A source_inputs argument: None, or a sequence of already-built objects.
NoneSrc == [none |-> TRUE, items |-> <<>>]
Tuple(s) == [none |-> FALSE, items |-> s]
SourceObj(i) == 100 + i
SrcArgs == {NoneSrc} \cup { Tuple([i \in 1..k |-> SourceObj(i)]) : k \in 0..MaxSrc }

\* `source_inputs or ()`
OrEmpty(s) == IF s.none \/ Len(s.items) = 0 THEN Tuple(<<>>) ELSE s

VARIABLES
    cfg,      \* the caller's configuration object
    cfg0,     \* its value when the caller wrote it (history)
    creator,  \* SequentialDataPipeCreator: "none", "ready" (holds cfg), "rejected"
    outcome,  \* per invocation: status, returned object, raised error
    arg,      \* per invocation: the source_inputs argument of the call
    stack,    \* per invocation: the frames of create_sequential_datapipe
    calls,    \* per invocation: the calls made to factory, in order
    nextId,   \* per invocation: objects constructed so far
    first,    \* the first build that returned: its source inputs and calls (history)
    firstVia, \* how that first build was called: "function" or "creator" (history)
    how,      \* per invocation: how it was called, with which engine and source inputs
    fc,       \* IterableDataFlowCreator: _iterable, _cache, _kwargs
    flows,    \* the IterableDataFlow objects create returned, in order
    builds    \* times setup_object built the iterable from its configuration

vars == <<cfg, cfg0, creator, outcome, arg, stack, calls, nextId, first, firstVia, how,
          fc, flows, builds>>
flowVars == <<fc, flows, builds>>

\* ------------------------------------------------------------------ frames
\* A frame of create_sequential_datapipe(config, source_inputs): `path` is
\* where the argument `config` lies in the caller's object; `own` says the
\* local variable `config` was rebound to a private dict, held in `config`.
Frame(path, src) ==
    [path |-> path, own |-> FALSE, config |-> Dict(NoEntries), pc |-> "L290",
     src |-> src, datapipe |-> None, i |-> 0, target |-> Absent]

\* The object the frame's variable `config` is bound to.
Bound(f) == IF f.own THEN f.config ELSE At(cfg, f.path)

Top(t) == stack[t][Len(stack[t])]
Running(t) == outcome[t].status = "running" /\ Len(stack[t]) > 0
SetTop(stk, f) == [stk EXCEPT ![Len(stk)] = f]
Pop1(stk) == SubSeq(stk, 1, Len(stk) - 1)

Idle == [status |-> "idle", result |-> None, err |-> ""]

\* What the caller gets when error e is raised in frames stk: nothing in
\* create_sequential_datapipe catches, so the error reaches the caller.
UnwindPartial(stk, e) ==
    LET built == { k \in 1..Len(stk) : stk[k].datapipe # None }
    IN  IF built = {} THEN [status |-> "raised", result |-> None, err |-> e]
        ELSE [status |-> "returned",
              result |-> stk[CHOOSE k \in built : \A j \in built : j <= k].datapipe,
              err |-> ""]
Unwind(stk, e) == [status |-> "raised", result |-> None, err |-> e]

\* A sequence frame after a recursive call returned v, which keeps only the
\* first stage it built.
BindFirst(f, v) == IF f.datapipe = None THEN [f EXCEPT !.datapipe = v] ELSE f
\* datapipe = create_sequential_datapipe(...): the sequence frame after a
\* recursive call returned v.
Bind(f, v) == [f EXCEPT !.datapipe = v]

\* The chain fed with the caller's source inputs at every stage.
ChainInputsSrc(f) == f.src
\* source_inputs=(datapipe,): what a later stage is built from.
ChainInputs(f) == Tuple(<<f.datapipe>>)

\* Source inputs handed on by the outermost sequence only.
FirstInputsTopOnly(f) == IF f.path = <<>> THEN f.src ELSE Tuple(<<>>)
\* The first element built without the caller's source inputs.
FirstInputsNone(f) == Tuple(<<>>)
\* config[0] is built from source_inputs as the caller gave them.
FirstInputs(f) == f.src

\* The frame left bound to the caller's dict.
CopyStepAlias(f, c) == [f EXCEPT !.pc = "L295"]
\* config = config.copy(): the frame's `config` rebound to a private copy of c.
CopyStep(f, c) == [f EXCEPT !.own = TRUE, !.config = c, !.pc = "L295"]

\* A call that forgets the source inputs.
CallArgsNone(f) == <<>>
\* *source_inputs: the positional arguments of the factory call.
CallArgs(f) == f.src.items

\* A pop with a default, which never raises.
PopRaisesNever(c) == FALSE
\* config.pop(OBJECT_TARGET) raises KeyError when the key is missing.
PopRaises(c) == c.d[TARGET] = Absent

\* The signature of a log of calls: kinds, keyword arguments and number of
\* positional arguments, without the identities of the objects.
Sig(log) == [k \in 1..Len(log) |->
                [kind |-> log[k].kind, kwargs |-> log[k].kwargs, nargs |-> Len(log[k].args)]]

\* `again`: a later build with the same source inputs returned too.
NoFirst == [set |-> FALSE, src |-> Tuple(<<>>), sig |-> <<>>, again |-> FALSE]

\* ------------------------------------------------------------- transitions
\* The invocation t ends by raising e.
Raise(t, e) ==
    /\ outcome' = [outcome EXCEPT ![t] = Unwind(stack[t], e)]
    /\ stack' = [stack EXCEPT ![t] = <<>>]
    /\ UNCHANGED <<first, firstVia>>

\* The top frame of t returns v to its caller;
\* `log` is the invocation's log of calls when it returns.
Return(t, v, log) ==
    IF Len(stack[t]) = 1
    THEN /\ stack' = [stack EXCEPT ![t] = <<>>]
         /\ outcome' = [outcome EXCEPT ![t] = [status |-> "returned", result |-> v, err |-> ""]]
         /\ first' = IF ~first.set
                     THEN [set |-> TRUE, src |-> OrEmpty(arg[t]), sig |-> Sig(log), again |-> FALSE]
                     ELSE IF first.src = OrEmpty(arg[t]) THEN [first EXCEPT !.again = TRUE]
                     ELSE first
         /\ firstVia' = IF first.set THEN firstVia ELSE how[t].via
    ELSE /\ stack' = [stack EXCEPT ![t] =
                         SetTop(Pop1(stack[t]), Bind(stack[t][Len(stack[t]) - 1], v))]
         /\ UNCHANGED <<outcome, first, firstVia>>

\* A call of create_sequential_datapipe(config, s) begins, `config` being
\* the object at position p of the caller's configuration.
BeginAt(t, p, s) ==
    /\ outcome' = [outcome EXCEPT ![t] = [status |-> "running", result |-> None, err |-> ""]]
    /\ arg' = [arg EXCEPT ![t] = s]
    /\ stack' = [stack EXCEPT ![t] = <<Frame(p, s)>>]
    /\ calls' = [calls EXCEPT ![t] = <<>>]
    /\ nextId' = [nextId EXCEPT ![t] = 0]
    /\ UNCHANGED <<cfg, cfg0, creator, first, firstVia, flowVars>>

\* A call of create_sequential_datapipe(cfg, s) begins.
Begin(t, s) == BeginAt(t, <<>>, s)

\* How an invocation was called: directly, or through creator.create with
\* an engine; `src` is the source_inputs argument the caller gave.
NotCalled == [via |-> "none", engine |-> None, src |-> NoneSrc]
Direct(s) == [via |-> "function", engine |-> None, src |-> s]
ViaCreator(engine, s) == [via |-> "creator", engine |-> engine, src |-> s]

\* The caller calls create_sequential_datapipe(cfg, s) directly.
Call(t) ==
    /\ outcome[t].status # "running"
    /\ \E s \in SrcArgs :
          /\ Begin(t, s)
          /\ how' = [how EXCEPT ![t] = Direct(s)]

\* SequentialDataPipeCreator(cfg): lines 35-38.
CreatorInit ==
    /\ creator = "none"
    /\ creator' = IF NotConfig(cfg) THEN "rejected" ELSE "ready"
    /\ UNCHANGED <<cfg, cfg0, outcome, arg, how, stack, calls, nextId, first, firstVia, flowVars>>

\* A create that does not forward its source inputs.
CreateInputsDropped(engine, s) == NoneSrc
\* Line 155: create_sequential_datapipe(config=self._config,
\* source_inputs=source_inputs); the engine is not passed on.
CreateInputs(engine, s) == s

\* creator.create(engine, source_inputs): line 155; the engine is not used.
CreatorCreate(t) ==
    /\ creator = "ready"
    /\ outcome[t].status # "running"
    /\ \E engine \in Engines, s \in SrcArgs :
          /\ Begin(t, CreateInputs(engine, s))
          /\ how' = [how EXCEPT ![t] = ViaCreator(engine, s)]

\* Lines 290-293: the emptiness check, `source_inputs or ()`, the type test.
Check(t) ==
    /\ Running(t)
    /\ Top(t).pc = "L290"
    /\ LET f == Top(t)
           c == Bound(f)
       IN  IF NotConfig(c)
           THEN Raise(t, "RuntimeError")
           ELSE /\ stack' = [stack EXCEPT ![t] = SetTop(stack[t],
                                [f EXCEPT !.src = OrEmpty(f.src),
                                          !.pc = IF IsDict(c) THEN "L294" ELSE "L297"])]
                /\ UNCHANGED <<outcome, first, firstVia>>
    /\ UNCHANGED <<cfg, cfg0, creator, arg, how, calls, nextId, flowVars>>

\* Line 294: config = config.copy()
Copy(t) ==
    /\ Running(t)
    /\ Top(t).pc = "L294"
    /\ stack' = [stack EXCEPT ![t] = SetTop(stack[t], CopyStep(Top(t), Bound(Top(t))))]
    /\ UNCHANGED <<cfg, cfg0, creator, outcome, arg, how, calls, nextId, first, firstVia, flowVars>>

\* Line 295: target = config.pop(OBJECT_TARGET), on the object `config` is
\* bound to.
PopTarget(t) ==
    /\ Running(t)
    /\ Top(t).pc = "L295"
    /\ LET f == Top(t)
           c == Bound(f)
           popped == [c EXCEPT !.d[TARGET] = Absent]
       IN  IF PopRaises(c)
           THEN Raise(t, "KeyError") /\ UNCHANGED cfg
           ELSE /\ stack' = [stack EXCEPT ![t] = SetTop(stack[t],
                                IF f.own
                                THEN [f EXCEPT !.config = popped, !.target = c.d[TARGET], !.pc = "L296"]
                                ELSE [f EXCEPT !.target = c.d[TARGET], !.pc = "L296"])]
                /\ cfg' = IF f.own THEN cfg ELSE SetAt(cfg, f.path, popped)
                /\ UNCHANGED <<outcome, first, firstVia>>
    /\ UNCHANGED <<cfg0, creator, arg, how, calls, nextId, flowVars>>

\* Line 296: return factory(target, *source_inputs, **config); the external
\* utility builds a new object or raises.
Factory(t) ==
    /\ Running(t)
    /\ Top(t).pc = "L296"
    /\ LET f == Top(t)
           call == [kind |-> f.target, args |-> CallArgs(f), kwargs |-> Bound(f).d,
                    out |-> None, err |-> ""]
           new == 10 * t + nextId[t] + 1
       IN  \/ /\ calls' = [calls EXCEPT ![t] = Append(@, [call EXCEPT !.out = new])]
              /\ nextId' = [nextId EXCEPT ![t] = @ + 1]
              /\ Return(t, new, Append(calls[t], [call EXCEPT !.out = new]))
           \/ \E e \in ConstructErrors :
                /\ calls' = [calls EXCEPT ![t] = Append(@, [call EXCEPT !.err = e])]
                /\ Raise(t, e)
                /\ UNCHANGED nextId
    /\ UNCHANGED <<cfg, cfg0, creator, arg, how, flowVars>>

\* Line 297: datapipe = create_sequential_datapipe(config[0], source_inputs)
FirstStage(t) ==
    /\ Running(t)
    /\ Top(t).pc = "L297"
    /\ LET f == Top(t)
       IN  stack' = [stack EXCEPT ![t] =
                        Append(SetTop(stack[t], [f EXCEPT !.pc = "L298", !.i = 1]),
                               Frame(f.path \o <<1>>, FirstInputs(f)))]
    /\ UNCHANGED <<cfg, cfg0, creator, outcome, arg, how, calls, nextId, first, firstVia, flowVars>>

\* Lines 298-300: the loop over config[1:], then return datapipe.
Loop(t) ==
    /\ Running(t)
    /\ Top(t).pc = "L298"
    /\ LET f == Top(t)
           c == Bound(f)
       IN  IF f.i < Len(c.items)
           THEN /\ stack' = [stack EXCEPT ![t] =
                                Append(SetTop(stack[t], [f EXCEPT !.i = f.i + 1]),
                                       Frame(f.path \o <<f.i + 1>>, ChainInputs(f)))]
                /\ UNCHANGED <<outcome, first, firstVia>>
           ELSE Return(t, f.datapipe, calls[t])
    /\ UNCHANGED <<cfg, cfg0, creator, arg, how, calls, nextId, flowVars>>

Step(t) ==
    \/ Check(t)
    \/ Copy(t)
    \/ PopTarget(t)
    \/ Factory(t)
    \/ FirstStage(t)
    \/ Loop(t)

\* ------------------------------------------------- IterableDataFlowCreator
\* A reference to a built object.
ObjRef(i) == [tag |-> "obj", d |-> NoEntries, items |-> <<i>>]

\* objectory's is_object_config, as gravitorch's setup_object uses it: a dict
\* that holds the kind key.
IsObjectConfig(x) == x.tag = "dict" /\ x.d[TARGET] # Absent

\* What the constructor is given as `iterable`: a configuration, a dict that
\* is no configuration (an iterable itself), or an iterable object.
Iterables == Descriptors \cup {ObjRef(SourceObj(1))}

\* **kwargs of the constructor, forwarded to IterableDataFlow.
FlowKwargs == {"none", "deepcopy"}

\* IterableDataFlow(iterable, **self._kwargs): the flow holds the reference
\* it is given.
Flow(x, kw) == [iterable |-> x, kwargs |-> kw, err |-> ""]
Failed(kw, e) == [iterable |-> ObjRef(None), kwargs |-> kw, err |-> e]

\* Lines 56-57: if self._cache: self._iterable = iterable
Cached(c, x) == IF c.cache THEN [c EXCEPT !.iterable = x] ELSE c

\* IterableDataFlowCreator.create: lines 54-58.
FlowCreate ==
    /\ Len(flows) < MaxCreates
    /\ IF IsObjectConfig(fc.iterable)
       THEN \/ LET new == ObjRef(200 + builds + 1)
               IN  /\ builds' = builds + 1
                   /\ fc' = Cached(fc, new)
                   /\ flows' = Append(flows, Flow(new, fc.kwargs))
            \/ \E e \in ConstructErrors :
                 /\ builds' = builds + 1
                 /\ flows' = Append(flows, Failed(fc.kwargs, e))
                 /\ UNCHANGED fc
       ELSE /\ fc' = Cached(fc, fc.iterable)
            /\ flows' = Append(flows, Flow(fc.iterable, fc.kwargs))
            /\ UNCHANGED builds
    /\ UNCHANGED <<cfg, cfg0, creator, outcome, arg, how, stack, calls, nextId, first, firstVia>>

\* ---------------------------------------------------------- specifications
NoFlow == [given |-> ObjRef(None), iterable |-> ObjRef(None), cache |-> FALSE, kwargs |-> "none"]

InitBuilder ==
    /\ cfg0 = cfg
    /\ creator = "none"
    /\ outcome = [t \in Threads |-> Idle]
    /\ arg = [t \in Threads |-> NoneSrc]
    /\ stack = [t \in Threads |-> <<>>]
    /\ calls = [t \in Threads |-> <<>>]
    /\ nextId = [t \in Threads |-> 0]
    /\ first = NoFirst
    /\ firstVia = "none"
    /\ how = [t \in Threads |-> NotCalled]

InitNoFlow ==
    /\ fc = NoFlow
    /\ flows = <<>>
    /\ builds = 0

Init ==
    /\ cfg \in Configs
    /\ InitBuilder
    /\ InitNoFlow

\* One caller, any number of builds one after the other.
Next ==
    \/ Call(1)
    \/ CreatorInit
    \/ CreatorCreate(1)
    \/ Step(1)

Spec == Init /\ [][Next]_vars

\* Two callers build once each from one shared configuration object.
ConcConfigs == Descriptors \cup { List(s) : s \in SeqsUpTo(Descriptors, ConcLen) }

InitConc ==
    /\ cfg \in ConcConfigs
    /\ InitBuilder
    /\ InitNoFlow

ConcCall(t) ==
    /\ outcome[t].status = "idle"
    /\ \E s \in SrcArgs :
          /\ Begin(t, s)
          /\ how' = [how EXCEPT ![t] = Direct(s)]

NextConc == \E t \in Threads : ConcCall(t) \/ Step(t)

SpecConc == InitConc /\ [][NextConc]_vars

\* One caller builds the one-element sequence [d], another the bare
\* descriptor d, the very object the sequence holds.
PairConfigs == { List(<<d>>) : d \in Descriptors }

InitPair ==
    /\ cfg \in PairConfigs
    /\ InitBuilder
    /\ InitNoFlow

\* create_sequential_datapipe(cfg[0], s): the bare descriptor.
BareCall(t) ==
    /\ outcome[t].status # "running"
    /\ \E s \in SrcArgs :
          /\ BeginAt(t, <<1>>, s)
          /\ how' = [how EXCEPT ![t] = Direct(s)]

NextPair ==
    \/ BareCall(1)
    \/ Call(2)
    \/ Step(1)
    \/ Step(2)

SpecPair == InitPair /\ [][NextPair]_vars

\* IterableDataFlowCreator(iterable, cache, **kwargs): lines 41-44, then
\* create calls.
InitFlow ==
    /\ cfg = Dict(NoEntries)
    /\ InitBuilder
    /\ \E x \in Iterables, c \in BOOLEAN, kw \in FlowKwargs :
          fc = [given |-> x, iterable |-> x, cache |-> c, kwargs |-> kw]
    /\ flows = <<>>
    /\ builds = 0

NextFlow == FlowCreate

SpecFlow == InitFlow /\ [][NextFlow]_vars

\* ------------------------------------------------------------------ claims
Returned(t) == outcome[t].status = "returned"
Raised(t) == outcome[t].status = "raised"
\* The empty mapping or the empty sequence.
EmptyConfig(c) == c = Dict(NoEntries) \/ c = List(<<>>)
HasKind(c) == IsDict(c) /\ c.d[TARGET] # Absent
\* The keyword arguments a descriptor stands for: its entries without the kind.
Kwargs(c) == [c.d EXCEPT ![TARGET] = Absent]
\* A non-empty sequence of non-empty descriptors.
FlatStages(c) ==
    /\ ~IsDict(c)
    /\ Len(c.items) >= 1
    /\ \A i \in 1..Len(c.items) : IsDict(c.items[i]) /\ ~EmptyConfig(c.items[i])
\* The descriptors of a descriptor or of a flat sequence, in order.
Leaves(c) == IF IsDict(c) THEN <<c>> ELSE c.items
\* Every call before the last of a log returned an object.
ChainedCalls(log) ==
    \A k \in 2..Len(log) :
        /\ log[k - 1].out # None
        /\ log[k].args = <<log[k - 1].out>>

\* C1: for a non-empty sequence [d0..dn] of non-empty descriptors the calls to
\* factory are made in the order d0, d1, ..., dn (the log of calls is at every
\* moment a prefix of that order), the call for di (i >= 1) gets exactly the
\* one-element tuple holding the object the call for d(i-1) returned, and a
\* build that returns has made exactly n+1 calls.
C1_OrderedChain ==
    FlatStages(cfg0) =>
        /\ Len(calls[1]) <= Len(cfg0.items)
        /\ \A k \in 1..Len(calls[1]) :
              k <= Len(cfg0.items) => calls[1][k].kind = cfg0.items[k].d[TARGET]
        /\ ChainedCalls(calls[1])
        /\ Returned(1) => Len(calls[1]) = Len(cfg0.items)

C1_Witness ==
    /\ FlatStages(cfg0)
    /\ Len(cfg0.items) = 3
    /\ Returned(1)
    /\ Len(calls[1]) = 3
    /\ calls[1][1].kind # calls[1][2].kind

\* C2: in a build of a sequence configuration with source inputs S, the first
\* call to factory gets all of S in the caller's order as its positional
\* arguments, and every later call gets exactly one positional argument, the
\* object the previous call returned, which is no element of S.
C2_SourceOnlyFirst ==
    (~IsDict(cfg0)) =>
        \A k \in 1..Len(calls[1]) :
            IF k = 1
            THEN calls[1][k].args = OrEmpty(arg[1]).items
            ELSE /\ Len(calls[1][k].args) = 1
                 /\ calls[1][k].args[1] = calls[1][k - 1].out
                 /\ \A j \in 1..Len(arg[1].items) : calls[1][k].args[1] # arg[1].items[j]

C2_Witness ==
    /\ ~IsDict(cfg0)
    /\ Returned(1)
    /\ Len(calls[1]) = 3
    /\ arg[1].items = <<SourceObj(1), SourceObj(2)>>
    /\ calls[1][1].args = <<SourceObj(1), SourceObj(2)>>

\* C3: for a single non-empty descriptor d with kind K and source inputs S
\* (empty when None), a build that ends has called factory exactly once, with
\* kind K, the elements of S in order as positional arguments, and d without
\* its kind key as keyword arguments; never more than once.
C3_SingleDescriptor ==
    HasKind(cfg0) =>
        /\ Len(calls[1]) <= 1
        /\ (Returned(1) \/ Raised(1)) => Len(calls[1]) = 1
        /\ \A k \in 1..Len(calls[1]) :
              /\ calls[1][k].kind = cfg0.d[TARGET]
              /\ calls[1][k].args = OrEmpty(arg[1]).items
              /\ calls[1][k].kwargs = Kwargs(cfg0)

C3_Witness ==
    /\ HasKind(cfg0)
    /\ cfg0.d["data"] # Absent
    /\ Returned(1)
    /\ arg[1].items = <<SourceObj(1), SourceObj(2)>>
    /\ Len(calls[1]) = 1

\* C4: with an empty configuration (the empty dict or the empty sequence) a
\* build never returns, it fails with the empty-configuration error, no call
\* to factory is made, and SequentialDataPipeCreator is never constructed: its
\* constructor rejects the configuration, so create cannot be called.
C4_EmptyConfig ==
    EmptyConfig(cfg0) =>
        /\ creator # "ready"
        /\ calls[1] = <<>>
        /\ ~Returned(1)
        /\ Raised(1) => outcome[1].err = "RuntimeError"

C4_Witness ==
    /\ cfg0 = List(<<>>)
    /\ creator = "rejected"
    /\ Raised(1)
    /\ outcome[1].err = "RuntimeError"

\* C5: builds never change the caller's configuration object, whatever their
\* number and outcome, and a later build that returns, made with the same
\* source inputs as the first build that returned, has issued the same calls
\* (kinds, keyword arguments, number of positional arguments).
C5_ConfigUnchanged ==
    /\ cfg = cfg0
    /\ (Returned(1) /\ first.set /\ first.src = OrEmpty(arg[1]))
          => Sig(calls[1]) = first.sig

C5_Witness ==
    /\ first.again
    /\ Returned(1)
    /\ Len(calls[1]) = 2
    /\ HasKind(At(cfg, <<1>>))

\* C6: a call to factory that raises is the last call of its build (no later
\* descriptor is built, the call is not made again), the build raises that
\* very error, and it returns no object.
C6_FailurePropagates ==
    \A k \in 1..Len(calls[1]) :
        calls[1][k].err # "" =>
            /\ k = Len(calls[1])
            /\ outcome[1] = [status |-> "raised", result |-> None, err |-> calls[1][k].err]

C6_Witness ==
    /\ FlatStages(cfg0)
    /\ Len(cfg0.items) = 3
    /\ Len(calls[1]) = 2
    /\ calls[1][2].err = "InitError"
    /\ Raised(1)

\* C7: a build that returns, returns the object of the last call to factory
\* (the sink) and no object of an earlier call.
C7_ReturnsSink ==
    Returned(1) =>
        /\ Len(calls[1]) >= 1
        /\ outcome[1].result = calls[1][Len(calls[1])].out
        /\ \A k \in 1..(Len(calls[1]) - 1) : outcome[1].result # calls[1][k].out

C7_Witness ==
    /\ Returned(1)
    /\ Len(calls[1]) = 3
    /\ outcome[1].result = calls[1][3].out

\* C8: two builds running concurrently on one shared configuration object do
\* not interfere: the shared object keeps its kind key and all its entries at
\* every moment, no build misses the kind key of a descriptor that has one,
\* and each build issues the calls it issues when run alone (kind and keyword
\* arguments of each descriptor in order, the source inputs for the first, the
\* previous object for the others).
C8_NoInterference ==
    /\ cfg = cfg0
    /\ \A t \in Threads :
          /\ (Raised(t) /\ outcome[t].err = "KeyError")
                => \E i \in 1..Len(Leaves(cfg0)) : ~HasKind(Leaves(cfg0)[i])
          /\ Len(calls[t]) <= Len(Leaves(cfg0))
          /\ \A k \in 1..Len(calls[t]) :
                k <= Len(Leaves(cfg0)) =>
                    /\ calls[t][k].kind = Leaves(cfg0)[k].d[TARGET]
                    /\ calls[t][k].kwargs = Kwargs(Leaves(cfg0)[k])
                    /\ k = 1 => calls[t][k].args = OrEmpty(arg[t]).items
          /\ ChainedCalls(calls[t])

\* Both builds are between their copy and their call to factory, on a shared
\* descriptor that has a kind.
C8_Witness ==
    /\ HasKind(cfg0)
    /\ Running(1) /\ Running(2)
    /\ Top(1).pc = "L296"
    /\ Top(2).pc = "L295"

\* Some descriptor or sequence of configuration c is empty.
RECURSIVE HasEmpty(_)
HasEmpty(c) ==
    \/ EmptyConfig(c)
    \/ (~IsDict(c)) /\ \E i \in 1..Len(c.items) : HasEmpty(c.items[i])
\* Some non-empty descriptor of configuration c has no kind key.
RECURSIVE HasKindless(_)
HasKindless(c) ==
    IF IsDict(c) THEN ~EmptyConfig(c) /\ ~HasKind(c)
    ELSE \E i \in 1..Len(c.items) : HasKindless(c.items[i])

\* C9 as stated: a failed build ends with the empty-configuration error or
\* with an error the construct utility raised, and with no other error.
C9_TwoErrorKinds ==
    Raised(1) =>
        \/ outcome[1].err = "RuntimeError"
        \/ /\ outcome[1].err \in ConstructErrors
           /\ Len(calls[1]) >= 1
           /\ calls[1][Len(calls[1])].err = outcome[1].err

\* C9, amended: a failed build ends with one of three kinds of error: the
\* empty-configuration error (some descriptor or sequence is empty), the
\* KeyError of config.pop raised by the builder itself for a non-empty
\* descriptor without kind key, before any call to factory for it (no call is
\* ever made without a kind), or the error of the last call to factory,
\* unchanged.
C9_ThreeErrorKinds ==
    /\ \A k \in 1..Len(calls[1]) : calls[1][k].kind # Absent
    /\ Raised(1) =>
          \/ outcome[1].err = "RuntimeError" /\ HasEmpty(cfg0)
          \/ outcome[1].err = "KeyError" /\ HasKindless(cfg0)
          \/ /\ outcome[1].err \in ConstructErrors
             /\ Len(calls[1]) >= 1
             /\ calls[1][Len(calls[1])].err = outcome[1].err

C9_Witness ==
    /\ Raised(1)
    /\ outcome[1].err = "KeyError"
    /\ HasKindless(cfg0)
    /\ Len(calls[1]) = 1

\* C10 as stated: created with cache=True from a configuration, the creator
\* builds the iterable on the first create call only, and every later create
\* call returns a flow over a copy of the first-built iterable, that is over
\* another object than the one the creator keeps; with cache=False every
\* create call builds the iterable and the stored configuration stays.
C10_CachedCopy ==
    IsObjectConfig(fc.given) =>
        IF fc.cache
        THEN (Len(flows) >= 1 /\ flows[1].err = "") =>
                /\ builds = 1
                /\ \A k \in 2..Len(flows) :
                      /\ flows[k].err = ""
                      /\ flows[k].iterable # fc.iterable
                      /\ flows[k].iterable # flows[1].iterable
        ELSE /\ builds = Len(flows)
             /\ fc.iterable = fc.given

\* The invocation t has ended.
Ended(t) == Returned(t) \/ Raised(t)
BuilderErrors == {"RuntimeError", "KeyError"}

\* C11: the build of the one-element sequence [d] (invocation 2) and the build
\* of the bare descriptor d (invocation 1) with the same source inputs issue
\* the same single call to factory (kind, positional arguments, keyword
\* arguments), return the object of that call, and fail with the same error
\* of the builder when d is empty or has no kind.
C11_SingletonEquivalent ==
    (Ended(1) /\ Ended(2) /\ OrEmpty(arg[1]) = OrEmpty(arg[2])) =>
        /\ Len(calls[1]) = Len(calls[2])
        /\ Len(calls[1]) <= 1
        /\ \A k \in 1..Len(calls[1]) :
              k <= Len(calls[2]) =>
                  /\ calls[1][k].kind = calls[2][k].kind
                  /\ calls[1][k].args = calls[2][k].args
                  /\ calls[1][k].kwargs = calls[2][k].kwargs
        /\ \A t \in Threads :
              Returned(t) => Len(calls[t]) = 1 /\ outcome[t].result = calls[t][1].out
        /\ (outcome[1].err \in BuilderErrors \/ outcome[2].err \in BuilderErrors)
              => outcome[1].err = outcome[2].err

C11_Witness ==
    /\ Returned(1) /\ Returned(2)
    /\ arg[1].items = <<SourceObj(1), SourceObj(2)>>
    /\ arg[2] = arg[1]
    /\ calls[2][1].args = <<SourceObj(1), SourceObj(2)>>
    /\ calls[2][1].kwargs["data"] # Absent

\* C12: SequentialDataPipeCreator.create keeps nothing from one call to the
\* next: whatever calls were made before (returned or failed, with any source
\* inputs and any engine), the stored configuration is the one the creator
\* was given, create hands its source inputs (and not its engine) to
\* create_sequential_datapipe, and a build that returns has issued the calls
\* of the first build that returned with the same source inputs, whether that
\* one was made directly or through the creator.
C12_NoStateAcrossCalls ==
    /\ cfg = cfg0
    /\ how[1].via = "creator" => creator = "ready" /\ arg[1] = how[1].src
    /\ \A k \in 1..Len(calls[1]) :
          k = 1 => calls[1][k].args = OrEmpty(how[1].src).items
    /\ (Returned(1) /\ first.set /\ first.src = OrEmpty(how[1].src))
          => Sig(calls[1]) = first.sig

\* A create call with an engine returns after a direct call and at least one
\* other build with the same source inputs.
C12_Witness ==
    /\ Returned(1)
    /\ how[1] = ViaCreator(1, Tuple(<<SourceObj(1), SourceObj(2)>>))
    /\ firstVia = "function"
    /\ first.again
    /\ first.src = OrEmpty(how[1].src)
    /\ Len(calls[1]) = 2

\* Position i >= 2 of sequence c holds the first empty element, and every
\* element before it is a descriptor with a kind.
EmptyAfterStages(c, i) ==
    /\ ~IsDict(c)
    /\ i \in 2..Len(c.items)
    /\ EmptyConfig(c.items[i])
    /\ \A j \in 1..(i - 1) : HasKind(c.items[j])

\* C13: when the first empty element (empty descriptor or empty nested
\* sequence) of a sequence configuration lies at position i >= 1 (counted from
\* 0) after descriptors d0..d(i-1), the emptiness check is made when that
\* element is reached: calls to factory are made for d0..d(i-1) only, in
\* order, the build never returns, it raises the empty-configuration error
\* only after exactly i calls that all returned, and it raises that error
\* whenever those i calls returned.
C13_LateEmptyCheck ==
    \A i \in 2..Len(cfg0.items) :
        EmptyAfterStages(cfg0, i) =>
            /\ Len(calls[1]) <= i - 1
            /\ \A k \in 1..Len(calls[1]) :
                  k <= i - 1 => calls[1][k].kind = cfg0.items[k].d[TARGET]
            /\ ~Returned(1)
            /\ (Raised(1) /\ outcome[1].err = "RuntimeError") =>
                  /\ Len(calls[1]) = i - 1
                  /\ \A k \in 1..Len(calls[1]) : calls[1][k].out # None
            /\ (Raised(1) /\ Len(calls[1]) = i - 1 /\ calls[1][i - 1].out # None) =>
                  outcome[1].err = "RuntimeError"

C13_Witness ==
    /\ EmptyAfterStages(cfg0, 3)
    /\ cfg0.items[3] = List(<<>>)
    /\ Raised(1)
    /\ outcome[1].err = "RuntimeError"
    /\ Len(calls[1]) = 2

\* The descriptors of a configuration, nested sequences flattened, in order.
RECURSIVE Flatten(_), FlattenSeq(_)
Flatten(c) == IF IsDict(c) THEN <<c>> ELSE FlattenSeq(c.items)
FlattenSeq(s) == IF s = <<>> THEN <<>> ELSE Flatten(Head(s)) \o FlattenSeq(Tail(s))

\* A sequence of non-empty descriptors and non-empty sequences of non-empty
\* descriptors, at least one element being a sequence.
NestedStages(c) ==
    /\ ~IsDict(c)
    /\ Len(c.items) >= 1
    /\ \E i \in 1..Len(c.items) : ~IsDict(c.items[i])
    /\ \A i \in 1..Len(c.items) :
          IF IsDict(c.items[i]) THEN ~EmptyConfig(c.items[i])
          ELSE /\ Len(c.items[i].items) >= 1
               /\ \A j \in 1..Len(c.items[i].items) :
                     IsDict(c.items[i].items[j]) /\ ~EmptyConfig(c.items[i].items[j])

\* C14: a nested sequence configuration is built like its flattened sequence
\* [d0..dn]: the calls to factory are those of the flat list (one per
\* descriptor in flattened order, with its kind and keyword arguments, the
\* source inputs S for d0 only and the previous object for every other), a
\* build that returns has made n+1 calls and returns the object of the last,
\* and the builder's KeyError arises only at a descriptor without kind, after
\* the calls of the descriptors before it.
C14_NestingFlattens ==
    NestedStages(cfg0) =>
        LET flat == Flatten(cfg0)
        IN  /\ Len(calls[1]) <= Len(flat)
            /\ \A k \in 1..Len(calls[1]) :
                  k <= Len(flat) =>
                      /\ calls[1][k].kind = flat[k].d[TARGET]
                      /\ calls[1][k].kwargs = Kwargs(flat[k])
                      /\ calls[1][k].args = IF k = 1 THEN OrEmpty(arg[1]).items
                                            ELSE <<calls[1][k - 1].out>>
            /\ Returned(1) =>
                  /\ Len(calls[1]) = Len(flat)
                  /\ outcome[1].result = calls[1][Len(calls[1])].out
            /\ (Raised(1) /\ outcome[1].err = "KeyError") =>
                  /\ Len(calls[1]) < Len(flat)
                  /\ ~HasKind(flat[Len(calls[1]) + 1])
            /\ Raised(1) => outcome[1].err # "RuntimeError"

\* [d0, [d1]] built with two source inputs.
C14_Witness ==
    /\ NestedStages(cfg0)
    /\ Len(cfg0.items) = 2
    /\ ~IsDict(cfg0.items[2])
    /\ Returned(1)
    /\ Len(calls[1]) = 2
    /\ calls[1][1].args = <<SourceObj(1), SourceObj(2)>>
    /\ calls[1][2].args = <<calls[1][1].out>>

====
